---- MODULE Spec2Model ----
(***************************************************************************)
(* Scopa match engine (scopa.py): Deck, Match.play_card, verify_play,      *)
(* possible_plays, tally_tricks, score_match and the match drivers.        *)
(***************************************************************************)
EXTENDS Integers, Sequences, FiniteSets, TLC

(* ------------------------------ bounds --------------------------------- *)
\* number of turns of one match on which the chooser may leave the first
\* entry of possible_plays (random_play) or issue a hand-written play_card
MaxFree == 1
\* longest capture list a hand-written play_card call passes
MaxCapLen == 2
\* longest pile or trick of which every permutation is scored
MaxPermLen == 3

(* ------------------------------ constants ------------------------------ *)
SETTEBELLO_SUIT == 2
SETTEBELLO_VALUE == 7
LAST_TURN == 36
\* None where a Card is expected (Trick.card_played of the final trick)
None == [none |-> TRUE]
\* None where a Player is expected (_last_player_to_pickup before any capture)
NoPlayer == 0

Card(value, suit) == [value |-> value, suit |-> suit]

PRIMIERA_POINTS(v) ==
    CASE v = 1 -> 16 [] v = 2 -> 12 [] v = 3 -> 13 [] v = 4 -> 14
      [] v = 5 -> 15 [] v = 6 -> 18 [] v = 7 -> 21 [] v = 8 -> 10
      [] v = 9 -> 10 [] v = 10 -> 10 [] OTHER -> 0

players == <<1, 2>>
Players == {players[i] : i \in 1..Len(players)}

\* Deck.__init__: the 40 cards, suit by suit, before shuffle() permutes them
FreshDeck == [i \in 1..40 |-> Card(((i - 1) % 10) + 1, (i - 1) \div 10)]

\* TestMatch.initialize_deck: the permutation of the 40 cards the matches
\* followed here are played with
TestDeck ==
    << Card(4,1), Card(5,2), Card(5,1), Card(8,1), Card(4,3), Card(1,2),
       Card(3,0), Card(6,1), Card(9,1), Card(7,2), Card(7,1), Card(6,2),
       Card(10,1), Card(10,3), Card(9,2), Card(2,1), Card(2,2), Card(10,2),
       Card(10,0), Card(1,0), Card(3,1), Card(4,0), Card(5,0), Card(2,0),
       Card(2,3), Card(7,3), Card(8,0), Card(5,3), Card(6,3), Card(3,3),
       Card(8,2), Card(9,3), Card(7,0), Card(4,2), Card(6,0), Card(3,2),
       Card(9,0), Card(1,3), Card(1,1), Card(8,3) >>

VARIABLES deck, tabletop, hands, tricks, last_player_to_pickup, turn_number,
          pc, idx, nfree, call

vars == <<deck, tabletop, hands, tricks, last_player_to_pickup, turn_number,
          pc, idx, nfree, call>>

(* ------------------------------ helpers -------------------------------- *)
In(x, s) == \E i \in 1..Len(s) : s[i] = x

Range(s) == {s[i] : i \in 1..Len(s)}

\* s[:n]
Front(s, n) == SubSeq(s, 1, IF n < Len(s) THEN n ELSE Len(s))

\* s[-n:]
Back(s, n) == SubSeq(s, IF n < Len(s) THEN Len(s) - n + 1 ELSE 1, Len(s))

\* list.remove(x): drops the first occurrence of x (x is known to be in s)
Remove(s, x) ==
    LET i == CHOOSE k \in 1..Len(s) : s[k] = x /\ \A j \in 1..(k - 1) : s[j] # x
    IN  SubSeq(s, 1, i - 1) \o SubSeq(s, i + 1, Len(s))

RECURSIVE SumValues(_)
SumValues(s) == IF s = <<>> THEN 0 ELSE Head(s).value + SumValues(Tail(s))

\* the record every operation leaves in `call`
CallRec(op, player, card, caps, raised) ==
    [op |-> op, player |-> player, card |-> card, caps |-> caps, raised |-> raised]

(* ------------------------------ Deck ----------------------------------- *)
\* Deck.deal_cards: [self._cards.pop() for _ in range(num_cards)]
\* pop() takes from the end; popping an empty list raises after the cards
\* popped so far have left the deck
deal_cards(d, num_cards) ==
    IF Len(d) >= num_cards
    THEN [cards  |-> [i \in 1..num_cards |-> d[Len(d) + 1 - i]],
          deck   |-> SubSeq(d, 1, Len(d) - num_cards),
          raised |-> FALSE]
    ELSE [cards |-> <<>>, deck |-> <<>>, raised |-> TRUE]

(* ------------------------------ Match ---------------------------------- *)
\* Match.__init__ of a TestMatch
Init ==
    /\ deck = TestDeck
    /\ tabletop = <<>>
    /\ hands = [p \in Players |-> <<>>]
    /\ tricks = [p \in Players |-> <<>>]
    /\ last_player_to_pickup = NoPlayer
    /\ turn_number = 0
    /\ pc = "start"
    /\ idx = 0
    /\ nfree = 0
    /\ call = CallRec("init", NoPlayer, None, <<>>, FALSE)

\* verify_play without the exact-match test on captures of several cards
verify_play_multi_unchecked(player, card_to_play, cards_from_table) ==
    IF ~In(card_to_play, hands[player]) THEN FALSE
    ELSE IF \E i \in 1..Len(cards_from_table) : ~In(cards_from_table[i], tabletop) THEN FALSE
    ELSE IF cards_from_table # <<>> /\ card_to_play.value # SumValues(cards_from_table) THEN FALSE
    ELSE TRUE

\* Match.verify_play
verify_play(player, card_to_play, cards_from_table) ==
    IF ~In(card_to_play, hands[player]) THEN FALSE
    ELSE IF \E i \in 1..Len(cards_from_table) : ~In(cards_from_table[i], tabletop) THEN FALSE
    ELSE IF cards_from_table # <<>> /\ card_to_play.value # SumValues(cards_from_table) THEN FALSE
    ELSE IF Len(cards_from_table) > 1
            /\ \E i \in 1..Len(tabletop) : tabletop[i].value = card_to_play.value THEN FALSE
    ELSE TRUE

\* the removal loop leaving after its first card
remove_from_table_first_only(tab, cards_from_table) ==
    IF cards_from_table = <<>> THEN [tabletop |-> tab, raised |-> FALSE]
    ELSE IF ~In(Head(cards_from_table), tab) THEN [tabletop |-> tab, raised |-> TRUE]
    ELSE [tabletop |-> Remove(tab, Head(cards_from_table)), raised |-> FALSE]

\* the loop `for card in cards_from_table: self._tabletop.remove(card)`;
\* remove raises ValueError when the card is no longer on the table
RECURSIVE remove_from_table(_, _)
remove_from_table(tab, cards_from_table) ==
    IF cards_from_table = <<>> THEN [tabletop |-> tab, raised |-> FALSE]
    ELSE IF ~In(Head(cards_from_table), tab) THEN [tabletop |-> tab, raised |-> TRUE]
    ELSE remove_from_table(Remove(tab, Head(cards_from_table)), Tail(cards_from_table))

\* scopa_point = 0 if self._tabletop and self._turn_number != 36 else 1
scopa_point(tab, turn) == IF tab # <<>> /\ turn # LAST_TURN THEN 0 ELSE 1

Trick(card_played, cards_picked_up, scopa) ==
    [card_played |-> card_played, cards_picked_up |-> cards_picked_up, scopa |-> scopa]

\* what a play_card call leaves behind when it raises at this point
Raised(h, tab, turn) ==
    [hands |-> h, tabletop |-> tab, tricks |-> tricks,
     last_player_to_pickup |-> last_player_to_pickup,
     turn_number |-> turn, raised |-> TRUE]

\* the place branch putting the card in front of the table cards
place_card_in_front(player, card_to_play, turn) ==
    IF ~In(card_to_play, hands[player])
    THEN Raised(hands, tabletop, turn)
    ELSE [Raised(hands, tabletop, turn) EXCEPT
            !.hands = [hands EXCEPT ![player] = Remove(@, card_to_play)],
            !.tabletop = <<card_to_play>> \o tabletop,
            !.raised = FALSE]

\* the branch `if cards_from_table == []` of play_card; list.remove raises
\* ValueError when the card is not in the hand
place_card(player, card_to_play, turn) ==
    IF ~In(card_to_play, hands[player])
    THEN Raised(hands, tabletop, turn)
    ELSE [Raised(hands, tabletop, turn) EXCEPT
            !.hands = [hands EXCEPT ![player] = Remove(@, card_to_play)],
            !.tabletop = Append(tabletop, card_to_play),
            !.raised = FALSE]

\* the branch `elif self.verify_play(...)` of play_card, once verify_play
\* has returned True
capture_cards(player, card_to_play, cards_from_table, turn) ==
    LET h == [hands EXCEPT ![player] = Remove(@, card_to_play)]
        r == remove_from_table(tabletop, cards_from_table)
    IN  IF r.raised
        THEN Raised(h, r.tabletop, turn)
        ELSE [Raised(h, r.tabletop, turn) EXCEPT
                !.tricks = [tricks EXCEPT ![player] =
                    Append(@, Trick(card_to_play, cards_from_table,
                                    scopa_point(r.tabletop, turn)))],
                !.last_player_to_pickup = player,
                !.raised = FALSE]

\* play_card counting a turn for a capture only
play_card_turn_on_capture(player, card_to_play, cards_from_table) ==
    LET turn == turn_number + 1
    IN  IF cards_from_table = <<>>
        THEN place_card(player, card_to_play, turn_number)
        ELSE IF verify_play(player, card_to_play, cards_from_table)
        THEN capture_cards(player, card_to_play, cards_from_table, turn)
        ELSE Raised(hands, tabletop, turn)

\* Match.play_card: the match fields after the call and whether it raised.
\* Card(card) of an argument that is a Card already is the argument itself.
play_card(player, card_to_play, cards_from_table) ==
    LET turn == turn_number + 1
    IN  IF cards_from_table = <<>>
        THEN place_card(player, card_to_play, turn)
        ELSE IF verify_play(player, card_to_play, cards_from_table)
        THEN capture_cards(player, card_to_play, cards_from_table, turn)
        ELSE Raised(hands, tabletop, turn)

(* ---------------------------- possible_plays --------------------------- *)
\* itertools.combinations(range(start, n+1), r) as index tuples, in order
RECURSIVE combinations(_, _, _)
combinations(n, r, start) ==
    IF r = 0 THEN << <<>> >>
    ELSE IF start > n THEN <<>>
    ELSE LET with == combinations(n, r - 1, start + 1)
         IN  [i \in 1..Len(with) |-> <<start>> \o with[i]]
             \o combinations(n, r, start + 1)

RECURSIVE powerset_from(_, _)
powerset_from(n, r) ==
    IF r > n THEN <<>> ELSE combinations(n, r, 1) \o powerset_from(n, r + 1)

\* the index tuples of powerset for the table sizes of ordinary play,
\* evaluated once (a table of another size is computed on demand)
IndexPowersets == [n \in 0..10 |-> powerset_from(n, 0)]

\* powerset(s): chain of combinations(s, r) for r in range(len(s)+1)
powerset(s) ==
    LET ix == IF Len(s) \in DOMAIN IndexPowersets
              THEN IndexPowersets[Len(s)]
              ELSE powerset_from(Len(s), 0)
    IN  [k \in 1..Len(ix) |-> [j \in 1..Len(ix[k]) |-> s[ix[k][j]]]]

\* the first loop of possible_plays without its verify_play call
capture_plays_unverified(player, subsets) ==
    LET hand  == hands[player]
        H     == Len(hand)
        pairs == [m \in 1..(Len(subsets) * H) |->
                    <<hand[((m - 1) % H) + 1], subsets[((m - 1) \div H) + 1]>>]
        Keep(play) == play[1].value = SumValues(play[2])
    IN  SelectSeq(pairs, Keep)

\* the first loop of possible_plays run twice over the subsets
capture_plays_twice(player, subsets) ==
    LET hand  == hands[player]
        H     == Len(hand)
        pairs == [m \in 1..(Len(subsets) * H) |->
                    <<hand[((m - 1) % H) + 1], subsets[((m - 1) \div H) + 1]>>]
        Keep(play) == /\ play[1].value = SumValues(play[2])
                      /\ verify_play(player, play[1], play[2])
    IN  SelectSeq(pairs, Keep) \o SelectSeq(pairs, Keep)

\* first loop of possible_plays: for every subset of the table, in powerset
\* order, and every card of the hand, in hand order, the pairs whose values
\* match and that verify_play accepts
capture_plays(player, subsets) ==
    LET hand  == hands[player]
        H     == Len(hand)
        pairs == [m \in 1..(Len(subsets) * H) |->
                    <<hand[((m - 1) % H) + 1], subsets[((m - 1) \div H) + 1]>>]
        Keep(play) == /\ play[1].value = SumValues(play[2])
                      /\ verify_play(player, play[1], play[2])
    IN  SelectSeq(pairs, Keep)

\* the second loop of possible_plays placing every card of the hand
RECURSIVE place_plays_every_card(_, _)
place_plays_every_card(hand, plays) ==
    IF hand = <<>> THEN plays
    ELSE place_plays_every_card(Tail(hand), Append(plays, <<Head(hand), <<>> >>))

\* possible_plays without its second loop
place_plays_none(hand, plays) == plays

\* second loop of possible_plays: cards that are in no play so far are placed
RECURSIVE place_plays(_, _)
place_plays(hand, plays) ==
    IF hand = <<>> THEN plays
    ELSE place_plays(Tail(hand),
                     IF \E i \in 1..Len(plays) : plays[i][1] = Head(hand)
                     THEN plays
                     ELSE Append(plays, <<Head(hand), <<>> >>))

\* Match.possible_plays
possible_plays(player) ==
    place_plays(hands[player], capture_plays(player, powerset(tabletop)))

(* ------------------------------ scoring -------------------------------- *)
\* the cards of a trick without the card played
trick_cards_picked_up_only(trick) == trick.cards_picked_up

\* trick.cards_picked_up + (trick.card_played,)
trick_cards(trick) == Append(trick.cards_picked_up, trick.card_played)

\* the loop body taking the settebello flag from the card at hand alone
tally_card_settebello_reset(t, card) ==
    IF card = None THEN t
    ELSE [t EXCEPT
            !.num_cards = @ + 1,
            !.num_denari = IF card.suit = SETTEBELLO_SUIT THEN @ + 1 ELSE @,
            !.settebello = IF card = Card(SETTEBELLO_VALUE, SETTEBELLO_SUIT) THEN 1 ELSE 0,
            !.primiera_cards =
                IF PRIMIERA_POINTS(card.value) > t.primiera_score[card.suit]
                THEN [@ EXCEPT ![card.suit] = card] ELSE @,
            !.primiera_score =
                IF PRIMIERA_POINTS(card.value) > t.primiera_score[card.suit]
                THEN [@ EXCEPT ![card.suit] = PRIMIERA_POINTS(card.value)] ELSE @]

\* the loop body recording every card as the primiera card of its suit
tally_card_last_wins(t, card) ==
    IF card = None THEN t
    ELSE LET points == PRIMIERA_POINTS(card.value)
         IN  [t EXCEPT
                !.num_cards = @ + 1,
                !.num_denari = IF card.suit = SETTEBELLO_SUIT THEN @ + 1 ELSE @,
                !.settebello = IF card = Card(SETTEBELLO_VALUE, SETTEBELLO_SUIT) THEN 1 ELSE @,
                !.primiera_cards = [@ EXCEPT ![card.suit] = card],
                !.primiera_score = [@ EXCEPT ![card.suit] = points]]

\* the body of the loop over the cards of a trick; `if card:` skips None
tally_card(t, card) ==
    IF card = None THEN t
    ELSE LET points == PRIMIERA_POINTS(card.value)
             better == points > t.primiera_score[card.suit]
         IN  [t EXCEPT
                !.num_cards = @ + 1,
                !.num_denari = IF card.suit = SETTEBELLO_SUIT THEN @ + 1 ELSE @,
                !.settebello = IF card = Card(SETTEBELLO_VALUE, SETTEBELLO_SUIT) THEN 1 ELSE @,
                !.primiera_cards = IF better THEN [@ EXCEPT ![card.suit] = card] ELSE @,
                !.primiera_score = IF better THEN [@ EXCEPT ![card.suit] = points] ELSE @]

RECURSIVE tally_cards(_, _)
tally_cards(t, cards) ==
    IF cards = <<>> THEN t ELSE tally_cards(tally_card(t, Head(cards)), Tail(cards))

\* the loop over the tricks of one player
RECURSIVE tally_pile(_, _)
tally_pile(t, pile) ==
    IF pile = <<>> THEN t
    ELSE tally_pile(tally_cards([t EXCEPT !.num_scopas = @ + Head(pile).scopa],
                                trick_cards(Head(pile))),
                    Tail(pile))

\* Match.tally_tricks for the given trick piles; sum(primiera_score) is
\* taken by score_match's reader below
tally_tricks(piles) ==
    [p \in Players |->
        tally_pile([num_scopas |-> 0, num_cards |-> 0, num_denari |-> 0,
                    settebello |-> 0,
                    primiera_cards |-> [s \in 0..3 |-> Card(0, s)],
                    primiera_score |-> [s \in 0..3 |-> 0]],
                   piles[p])]

\* sum(primiera_score)
primiera_sum(t) ==
    t.primiera_score[0] + t.primiera_score[1] + t.primiera_score[2] + t.primiera_score[3]

\* score_match giving the Denari point from five Denari on
score_match_five_denari(piles) ==
    LET tally == tally_tricks(piles)
        t1 == tally[players[1]]
        t2 == tally[players[2]]
        base(t) == t.num_scopas
                   + (IF t.num_cards > 20 THEN 1 ELSE 0)
                   + (IF t.num_denari >= 5 THEN 1 ELSE 0)
                   + t.settebello
        s1 == primiera_sum(t1)
        s2 == primiera_sum(t2)
        points1 == base(t1) + (IF s1 > s2 THEN 1 ELSE 0)
        points2 == base(t2) + (IF s1 > s2 THEN 0 ELSE IF s1 < s2 THEN 1 ELSE 0)
    IN  [p \in Players |-> IF p = players[1] THEN points1 ELSE points2]

\* Match.score_match for the given trick piles
score_match(piles) ==
    LET tally == tally_tricks(piles)
        t1 == tally[players[1]]
        t2 == tally[players[2]]
        base(t) == t.num_scopas
                   + (IF t.num_cards > 20 THEN 1 ELSE 0)
                   + (IF t.num_denari > 5 THEN 1 ELSE 0)
                   + t.settebello
        s1 == primiera_sum(t1)
        s2 == primiera_sum(t2)
        points1 == base(t1) + (IF s1 > s2 THEN 1 ELSE 0)
        points2 == base(t2) + (IF s1 > s2 THEN 0 ELSE IF s1 < s2 THEN 1 ELSE 0)
    IN  [p \in Players |-> IF p = players[1] THEN points1 ELSE points2]

(* ------------------------------ driver --------------------------------- *)
\* the player whose random_play the double loop runs next
CurrentPlayer == players[(idx % 2) + 1]

\* writes the outcome of a play_card call into the match fields
Commit(r) ==
    /\ hands' = r.hands
    /\ tabletop' = r.tabletop
    /\ tricks' = r.tricks
    /\ last_player_to_pickup' = r.last_player_to_pickup
    /\ turn_number' = r.turn_number

\* the double loop left after five plays
AfterPlay_five_plays(raised) ==
    IF raised THEN pc' = "raised" /\ idx' = idx
    ELSE /\ idx' = idx + 1
         /\ pc' = IF idx + 1 = 5 THEN "while" ELSE "play"

\* where the driver stands after a play: an uncaught exception ends the run
AfterPlay(raised) ==
    IF raised THEN pc' = "raised" /\ idx' = idx
    ELSE /\ idx' = idx + 1
         /\ pc' = IF idx + 1 = 6 THEN "while" ELSE "play"

\* deal_cards_to_table dealing five cards
DealCardsToTable_five ==
    /\ pc = "start"
    /\ LET d == deal_cards(deck, 5)
       IN  /\ deck' = d.deck
           /\ tabletop' = IF d.raised THEN tabletop ELSE tabletop \o d.cards
           /\ pc' = IF d.raised THEN "raised" ELSE "while"
           /\ call' = CallRec("deal_cards_to_table", NoPlayer, None, <<>>, d.raised)
    /\ UNCHANGED <<hands, tricks, last_player_to_pickup, turn_number, idx, nfree>>

\* Match.deal_cards_to_table, first statement of play_random_match
DealCardsToTable ==
    /\ pc = "start"
    /\ LET d == deal_cards(deck, 4)
       IN  /\ deck' = d.deck
           /\ tabletop' = IF d.raised THEN tabletop ELSE tabletop \o d.cards
           /\ pc' = IF d.raised THEN "raised" ELSE "while"
           /\ call' = CallRec("deal_cards_to_table", NoPlayer, None, <<>>, d.raised)
    /\ UNCHANGED <<hands, tricks, last_player_to_pickup, turn_number, idx, nfree>>

\* Match.deal_cards_to_players at the head of `while self._deck`
DealCardsToPlayers ==
    /\ pc = "while"
    /\ deck # <<>>
    /\ LET d1 == deal_cards(deck, 3)
           d2 == deal_cards(d1.deck, 3)
       IN  /\ deck' = IF d1.raised THEN d1.deck ELSE d2.deck
           /\ hands' = IF d1.raised THEN hands
                       ELSE IF d2.raised THEN [hands EXCEPT ![players[1]] = d1.cards]
                       ELSE [hands EXCEPT ![players[1]] = d1.cards, ![players[2]] = d2.cards]
           /\ pc' = IF d1.raised \/ d2.raised THEN "raised" ELSE "play"
           /\ call' = CallRec("deal_cards_to_players", NoPlayer, None, <<>>,
                              d1.raised \/ d2.raised)
    /\ idx' = 0
    /\ UNCHANGED <<tabletop, tricks, last_player_to_pickup, turn_number, nfree>>

\* Match.random_play inside the double loop of play_random_match; the first
\* entry is the choice of TestMatch.play_test_match
RandomPlay ==
    /\ pc = "play"
    /\ LET player == CurrentPlayer
           plays  == possible_plays(player)
       IN  \E i \in 1..Len(plays) :
             /\ i = 1 \/ nfree < MaxFree
             /\ nfree' = IF i = 1 THEN nfree ELSE nfree + 1
             /\ LET r == play_card(player, plays[i][1], plays[i][2])
                IN  /\ Commit(r)
                    /\ AfterPlay(r.raised)
                    /\ call' = CallRec("play_card", player, plays[i][1], plays[i][2], r.raised)
    /\ UNCHANGED deck

\* the tail giving the leftover cards to the player who played last
SweepToLastToPlay ==
    /\ pc = "while"
    /\ deck = <<>>
    /\ IF tabletop # <<>>
       THEN /\ tricks' = [tricks EXCEPT ![players[2]] =
                             Append(@, Trick(None, tabletop, 0))]
            /\ tabletop' = <<>>
            /\ pc' = "done"
            /\ call' = CallRec("sweep", players[2], None, <<>>, FALSE)
       ELSE /\ UNCHANGED <<tricks, tabletop>>
            /\ pc' = "done"
            /\ call' = CallRec("sweep", NoPlayer, None, <<>>, FALSE)
    /\ UNCHANGED <<deck, hands, last_player_to_pickup, turn_number, idx, nfree>>

\* the tail of play_random_match / play_test_match: leftover cards go to
\* the last player to pick up; self._tricks[None] raises KeyError
Sweep ==
    /\ pc = "while"
    /\ deck = <<>>
    /\ IF tabletop # <<>>
       THEN IF last_player_to_pickup \in Players
            THEN /\ tricks' = [tricks EXCEPT ![last_player_to_pickup] =
                                  Append(@, Trick(None, tabletop, 0))]
                 /\ tabletop' = <<>>
                 /\ pc' = "done"
                 /\ call' = CallRec("sweep", last_player_to_pickup, None, <<>>, FALSE)
            ELSE /\ UNCHANGED <<tricks, tabletop>>
                 /\ pc' = "raised"
                 /\ call' = CallRec("sweep", NoPlayer, None, <<>>, TRUE)
       ELSE /\ UNCHANGED <<tricks, tabletop>>
            /\ pc' = "done"
            /\ call' = CallRec("sweep", NoPlayer, None, <<>>, FALSE)
    /\ UNCHANGED <<deck, hands, last_player_to_pickup, turn_number, idx, nfree>>

\* the cards and capture lists a hand-written call names: the player's cards
\* and one card that is not theirs; lists over the first and the last card of
\* the table and one card that is not on it
CardArgs(player) == Range(hands[player]) \cup Range(Front(tabletop, 1))

CapArgs(player) ==
    LET elems == Range(Front(tabletop, 1))
                 \cup Range(Back(tabletop, 1))
                 \cup Range(Front(hands[player], 1))
    IN  UNION {[1..n -> elems] : n \in 0..MaxCapLen}

\* a hand-written play_card call (the doctests of play_card and TestMatch)
\* made for the player whose turn it is, in a match that followed the first
\* choices so far; the rest of the match follows them again
HumanPlay ==
    /\ pc = "play"
    /\ nfree = 0
    /\ nfree' = MaxFree
    /\ LET player == CurrentPlayer
       IN  \E card_to_play \in CardArgs(player), cards_from_table \in CapArgs(player) :
             LET r == play_card(player, card_to_play, cards_from_table)
             IN  /\ Commit(r)
                 /\ AfterPlay(r.raised)
                 /\ call' = CallRec("play_card", player, card_to_play,
                                    cards_from_table, r.raised)
    /\ UNCHANGED deck

\* a chooser that never captures: the driver's play is the hand-written
\* call play_card(player, card, []) with a card of the hand, the first one
\* unless the chooser spends one of its free turns
PlacePlay ==
    /\ pc = "play"
    /\ LET player == CurrentPlayer
       IN  \E i \in 1..Len(hands[player]) :
             /\ i = 1 \/ nfree < MaxFree
             /\ nfree' = IF i = 1 THEN nfree ELSE nfree + 1
             /\ LET r == play_card(player, hands[player][i], <<>>)
                IN  /\ Commit(r)
                    /\ AfterPlay(r.raised)
                    /\ call' = CallRec("play_card", player, hands[player][i],
                                       <<>>, r.raised)
    /\ UNCHANGED deck

DriverNext == DealCardsToTable \/ DealCardsToPlayers \/ RandomPlay \/ Sweep

DriverSpec == Init /\ [][DriverNext]_vars

\* the driver with the chooser that never captures
PlacerNext == DealCardsToTable \/ DealCardsToPlayers \/ PlacePlay \/ Sweep

PlacerSpec == Init /\ [][PlacerNext]_vars

\* when RandomPlay can be taken: random.choice needs a non-empty list, and
\* its first entry is always open to the chooser
RandomPlayEnabled == pc = "play" /\ possible_plays(CurrentPlayer) # <<>>

\* the drivers run to their end: no statement of theirs waits for anything,
\* so each step that can be taken is taken (weak fairness of every action;
\* for RandomPlay it is written out with the guard above)
DriverLiveSpec ==
    /\ Init /\ [][DriverNext]_vars
    /\ WF_vars(DealCardsToTable)
    /\ WF_vars(DealCardsToPlayers)
    /\ WF_vars(Sweep)
    /\ ([]<>(~RandomPlayEnabled) \/ []<><<RandomPlay>>_vars)

Next == DriverNext \/ HumanPlay

Spec == Init /\ [][Next]_vars

(* ------------------------------ properties ----------------------------- *)
Flatten(pile) ==
    LET F[i \in 0..Len(pile)] ==
            IF i = 0 THEN <<>>
            ELSE F[i - 1] \o SelectSeq(trick_cards(pile[i]), LAMBDA c : c # None)
    IN  F[Len(pile)]

\* every place a card can be, one after the other
Held ==
    deck \o tabletop \o hands[players[1]] \o hands[players[2]]
         \o Flatten(tricks[players[1]]) \o Flatten(tricks[players[2]])

Count(c, s) == Cardinality({i \in 1..Len(s) : s[i] = c})

MatchFields == <<hands, tabletop, tricks, last_player_to_pickup, turn_number>>

IsPlay(c) == c.op = "play_card"

Other(p) == IF p = players[1] THEN players[2] ELSE players[1]

\* C1: every one of the 40 cards is in exactly one of the deck, the tabletop,
\* a hand or a trick, in every state of a match
Conservation ==
    /\ Len(Held) = 40
    /\ \A i \in 1..40 : Count(FreshDeck[i], Held) = 1

\* the same statement for the states the two drivers reach on their own
\* (every play taken from possible_plays): it holds there
ConservationInDriver == pc # "raised" => Conservation

\* C2: a play_card call that raises leaves hands, tabletop, trick piles,
\* last-player-to-pickup and the turn counter as they were
RejectedPlayUnchanged ==
    [][(IsPlay(call') /\ call'.raised) => MatchFields' = MatchFields]_vars

\* what verify_play, or membership in the hand for an empty capture list,
\* says about the arguments of a call in the state before it
WouldVerify(c) ==
    IF c.caps = <<>> THEN In(c.card, hands[c.player])
    ELSE verify_play(c.player, c.card, c.caps)

\* C3: play_card changes the match state exactly when verify_play (or, for an
\* empty capture list, membership in the hand) holds for the same arguments
\* in the prior state, and then it commits completely
VerifyCommitConsistency ==
    [][IsPlay(call') =>
          /\ (MatchFields' # MatchFields) <=> WouldVerify(call')
          /\ WouldVerify(call') => ~call'.raised]_vars

\* C4: the trick of a capture has scopa = 1 exactly when the capture empties
\* the tabletop and is not the last card played of the match
ScopaCorrect ==
    [][(IsPlay(call') /\ ~call'.raised /\ call'.caps # <<>>) =>
          LET pile == tricks'[call'.player]
              last_play == deck = <<>> /\ \A p \in Players : hands'[p] = <<>>
          IN  (pile[Len(pile)].scopa = 1) <=> (tabletop' = <<>> /\ ~last_play)]_vars

\* the arguments the legality statements range over: the cards and lists of
\* hand-written calls and every subset of the table in table order
Subsets == Range(powerset(tabletop))

ValuesOnTable == {tabletop[i].value : i \in 1..Len(tabletop)}

\* the four conditions of the legality rule, stated on sets
Legal(hand, table, values, c, S) ==
    /\ c \in hand
    /\ Range(S) \subseteq table
    /\ (S = <<>> \/ SumValues(S) = c.value)
    /\ (Len(S) <= 1 \/ c.value \notin values)

\* C5: verify_play returns True exactly when the card is in the hand, the
\* captures are on the table, they are empty or sum to the card's value, and
\* they are at most one card or no table card has the card's value
LegalityRule ==
    LET subsets == powerset(tabletop)
        table   == Range(tabletop)
        values  == ValuesOnTable
    IN  \A p \in Players :
          LET hand == Range(hands[p])
          IN  \A c \in CardArgs(p) :
                /\ \A S \in CapArgs(p) :
                      verify_play(p, c, S) <=> Legal(hand, table, values, c, S)
                /\ \A k \in 1..Len(subsets) :
                      verify_play(p, c, subsets[k])
                        <=> Legal(hand, table, values, c, subsets[k])

\* a multi-card capture that sums right and is refused only because a single
\* table card has the card's value, and one that is allowed
WitnessLegalityRule ==
    /\ pc = "play"
    /\ \E p \in Players : \E c \in Range(hands[p]) : \E S \in Subsets :
          Len(S) > 1 /\ SumValues(S) = c.value /\ ~verify_play(p, c, S)
    /\ \E p \in Players : \E c \in Range(hands[p]) : \E S \in Subsets :
          Len(S) > 1 /\ verify_play(p, c, S)

\* C6: when a table card has the value of hand card c, possible_plays has no
\* pair of c with more than one captured card
SingleExactMatchExclusion ==
    LET values == ValuesOnTable
    IN  \A p \in Players :
          LET plays == possible_plays(p)
          IN  \A i \in 1..Len(plays) :
                plays[i][1].value \in values => Len(plays[i][2]) <= 1

\* the player to move holds a card that has both an exact match and a
\* multi-card subset of its value on the table
WitnessSingleExactMatch ==
    /\ pc = "play"
    /\ \E c \in Range(hands[CurrentPlayer]) :
          /\ c.value \in ValuesOnTable
          /\ \E S \in Subsets : Len(S) > 1 /\ SumValues(S) = c.value

Accepted(p, c, S) == ~play_card(p, c, S).raised

\* C7 as stated: a pair (c, S), c in the hand and S a subset of the table,
\* is in possible_plays exactly when play_card would accept it
PossiblePlaysExact ==
    LET subsets == Subsets
    IN  \A p \in Players :
          LET listed == Range(possible_plays(p))
          IN  \A c \in Range(hands[p]) : \A S \in subsets :
                (<<c, S>> \in listed) <=> Accepted(p, c, S)

\* C7 amended: every listed pair is accepted; a pair with a non-empty subset
\* is listed exactly when play_card would accept it; the placement (c, ())
\* is listed exactly when no non-empty subset is an accepted capture for c
PossiblePlaysAmended ==
    LET subsets  == Subsets
        nonempty == subsets \ {<<>>}
    IN  \A p \in Players :
          LET listed == Range(possible_plays(p))
              hand   == Range(hands[p])
          IN  /\ \A play \in listed :
                    /\ play[1] \in hand
                    /\ play[2] \in subsets
                    /\ Accepted(p, play[1], play[2])
              /\ \A c \in hand :
                    LET captures == {S \in nonempty : Accepted(p, c, S)}
                    IN  /\ \A S \in nonempty : (<<c, S>> \in listed) <=> S \in captures
                        /\ (<<c, <<>> >> \in listed) <=> captures = {}

\* the player to move holds a card with a capture and a card without one
WitnessPossiblePlays ==
    /\ pc = "play"
    /\ LET p == CurrentPlayer
       IN  /\ \E c \in Range(hands[p]) : \E S \in Subsets \ {<<>>} : Accepted(p, c, S)
           /\ \E c \in Range(hands[p]) : \A S \in Subsets \ {<<>>} : ~Accepted(p, c, S)

Without(s, gone) == SelectSeq(s, LAMBDA x : x \notin gone)

\* C8: an accepted capture removes c from the player's hand and exactly the
\* cards of S from the table (the rest in their order), appends one trick
\* (c, S, scopa) to the player's pile and makes the player last to pick up;
\* the other hand and pile, the earlier tricks and the deck stay
CaptureEffect ==
    [][(IsPlay(call') /\ ~call'.raised /\ call'.caps # <<>>) =>
          LET p == call'.player
              c == call'.card
              S == call'.caps
          IN  /\ hands'[p] = Without(hands[p], {c})
              /\ Len(hands'[p]) = Len(hands[p]) - 1
              /\ tabletop' = Without(tabletop, Range(S))
              /\ Len(tabletop') = Len(tabletop) - Len(S)
              /\ \E sc \in {0, 1} : tricks'[p] = Append(tricks[p], Trick(c, S, sc))
              /\ last_player_to_pickup' = p
              /\ hands'[Other(p)] = hands[Other(p)]
              /\ tricks'[Other(p)] = tricks[Other(p)]
              /\ deck' = deck]_vars

\* an accepted capture of several cards that leaves cards on the table
WitnessCaptureEffect ==
    /\ IsPlay(call) /\ ~call.raised
    /\ Len(call.caps) > 1
    /\ tabletop # <<>>

\* C9: play_card with an empty capture list and a card of the hand is always
\* accepted, removes the card from the hand and appends it to the table;
\* piles, the other hand, the deck and last-player-to-pickup stay
PlaceEffect ==
    [][/\ \A p \in Players : \A c \in Range(hands[p]) : Accepted(p, c, <<>>)
       /\ (IsPlay(call') /\ call'.caps = <<>> /\ In(call'.card, hands[call'.player])) =>
             LET p == call'.player
                 c == call'.card
             IN  /\ ~call'.raised
                 /\ hands'[p] = Without(hands[p], {c})
                 /\ Len(hands'[p]) = Len(hands[p]) - 1
                 /\ tabletop' = Append(tabletop, c)
                 /\ tricks' = tricks
                 /\ hands'[Other(p)] = hands[Other(p)]
                 /\ deck' = deck
                 /\ last_player_to_pickup' = last_player_to_pickup]_vars

\* a card has been placed on a table that held other cards, by a player who
\* could have captured with it
WitnessPlaceEffect ==
    /\ IsPlay(call) /\ ~call.raised /\ call.caps = <<>>
    /\ Len(tabletop) > 1
    /\ \E i \in 1..(Len(tabletop) - 1) : tabletop[i].value = call.card.value

Pile(p) == Flatten(tricks[p])

NumScopas(pile) == Cardinality({i \in 1..Len(pile) : pile[i].scopa = 1})

NumDenari(cards) == Cardinality({i \in 1..Len(cards) : cards[i].suit = SETTEBELLO_SUIT})

Max(S) == CHOOSE m \in S : \A x \in S : x <= m

BestOfSuit(cards, suit) ==
    Max({0} \cup {PRIMIERA_POINTS(cards[i].value) :
                    i \in {j \in 1..Len(cards) : cards[j].suit = suit}})

Primiera(cards) ==
    BestOfSuit(cards, 0) + BestOfSuit(cards, 1) + BestOfSuit(cards, 2) + BestOfSuit(cards, 3)

Point(b) == IF b THEN 1 ELSE 0

\* C10: score_match gives each player the number of their scopas, plus one
\* for more than 20 cards, one for more than 5 Denari, one for the 7 of
\* Denari, one for a strictly higher primiera than the opponent's
ScoringFormula ==
    LET score == score_match(tricks)
        cards == [p \in Players |-> Pile(p)]
        prim  == [p \in Players |-> Primiera(cards[p])]
    IN  \A p \in Players :
          score[p] =
              NumScopas(tricks[p])
              + Point(Len(cards[p]) > 20)
              + Point(NumDenari(cards[p]) > 5)
              + Point(In(Card(SETTEBELLO_VALUE, SETTEBELLO_SUIT), cards[p]))
              + Point(prim[p] > prim[Other(p)])

\* a finished match in which one player has the cards, the Denari, a scopa
\* and the higher primiera
WitnessScoringFormula ==
    /\ pc = "done"
    /\ \E p \in Players :
          /\ Len(Pile(p)) > 20
          /\ NumDenari(Pile(p)) > 5
          /\ NumScopas(tricks[p]) > 0
          /\ Primiera(Pile(p)) > Primiera(Pile(Other(p)))
          /\ score_match(tricks)[p] > score_match(tricks)[Other(p)]

PermuteSeq(s, f) == [i \in 1..Len(s) |-> s[f[i]]]

IndexPermutations ==
    [n \in 0..MaxPermLen |->
        {f \in [1..n -> 1..n] : \A i, j \in 1..n : f[i] = f[j] => i = j}]

SwapAdjacent(s, i) ==
    [k \in 1..Len(s) |-> IF k = i THEN s[i + 1] ELSE IF k = i + 1 THEN s[i] ELSE s[k]]

Reverse(s) == [k \in 1..Len(s) |-> s[Len(s) + 1 - k]]

\* other orders of a sequence: its reversal, every exchange of two
\* neighbours and, for a short one, every permutation
Reorderings(s) ==
    {Reverse(s)}
    \cup {SwapAdjacent(s, i) : i \in 1..(Len(s) - 1)}
    \cup (IF Len(s) <= MaxPermLen
          THEN {PermuteSeq(s, f) : f \in IndexPermutations[Len(s)]}
          ELSE {})

ReorderTrick(trick) ==
    {[trick EXCEPT !.cards_picked_up = r] : r \in Reorderings(trick.cards_picked_up)}

\* a pile with its tricks in another order, with the cards of one trick in
\* another order, or with the cards of every trick reversed
PileVariants(pile) ==
    Reorderings(pile)
    \cup UNION {{[pile EXCEPT ![i] = t] : t \in ReorderTrick(pile[i])} : i \in 1..Len(pile)}
    \cup {Reverse([i \in 1..Len(pile) |->
                      [pile[i] EXCEPT !.cards_picked_up = Reverse(@)]])}

\* score_match does not tell the piles from their reorderings
OrderIndependent(piles) ==
    LET score == score_match(piles)
        p1 == players[1]
        p2 == players[2]
    IN  /\ \A p \in Players : \A v \in PileVariants(piles[p]) :
              score_match([piles EXCEPT ![p] = v]) = score
        /\ score_match([piles EXCEPT ![p1] = Reverse(@), ![p2] = Reverse(@)]) = score

\* C11: score_match gives both players the same points when the tricks of a
\* pile, or the cards within a trick, are put in another order; stated for
\* the piles every capture and the final trick leave behind
ScoreOrderIndependent ==
    [][tricks' # tricks => OrderIndependent(tricks')]_vars

\* a finished match: the pile with the 7 of Denari is longer than the piles
\* permuted exhaustively, holds the final trick and a trick of several
\* cards, and reversing it moves the 7 of Denari away from the end
WitnessScoreOrderIndependent ==
    /\ pc = "done"
    /\ \E p \in Players :
          /\ Len(tricks[p]) > MaxPermLen
          /\ In(Card(SETTEBELLO_VALUE, SETTEBELLO_SUIT), Pile(p))
          /\ Pile(p)[Len(Pile(p))] # Card(SETTEBELLO_VALUE, SETTEBELLO_SUIT)
          /\ \E i \in 1..Len(tricks[p]) : tricks[p][i].card_played = None
          /\ \E i \in 1..Len(tricks[p]) : Len(tricks[p][i].cards_picked_up) > 1
          /\ Reverse(tricks[p]) # tricks[p]

\* the positions of the cards of a suit in a sequence of cards
OfSuit(cards, suit) == {i \in 1..Len(cards) : cards[i].suit = suit}

\* a pile holding the four sevens and lesser cards, the other pile empty
FourSevens ==
    [p \in Players |->
        IF p = players[1]
        THEN << Trick(Card(7, 2), <<Card(6, 2), Card(1, 2)>>, 0),
                Trick(Card(7, 0), <<Card(7, 3)>>, 0),
                Trick(None, <<Card(10, 1), Card(7, 1), Card(6, 1)>>, 0) >>
        ELSE <<>>]

\* C12: the primiera score of a pile is the sum over the four suits of the
\* highest primiera points among the pile's cards of the suit, 0 for a suit
\* without cards; the card recorded for a suit with cards is a card of the
\* pile, of that suit, with those points; four sevens give 84
PrimieraCorrect ==
    LET tally == tally_tricks(tricks)
    IN  /\ \A p \in Players :
              LET t     == tally[p]
                  cards == Pile(p)
              IN  /\ primiera_sum(t) = Primiera(cards)
                  /\ \A s \in 0..3 :
                        LET best == BestOfSuit(cards, s)
                        IN  /\ t.primiera_score[s] = best
                            /\ OfSuit(cards, s) = {} => best = 0
                            /\ OfSuit(cards, s) # {} =>
                                  /\ \E i \in OfSuit(cards, s) : cards[i] = t.primiera_cards[s]
                                  /\ PRIMIERA_POINTS(t.primiera_cards[s].value) = best
        /\ primiera_sum(tally_tricks(FourSevens)[players[1]]) = 84
        /\ primiera_sum(tally_tricks(FourSevens)[players[2]]) = 0

\* a pile without a card of some suit and with a suit whose recorded card is
\* neither the first nor the last card of that suit in the pile
WitnessPrimieraCorrect ==
    \E p \in Players :
        LET t     == tally_tricks(tricks)[p]
            cards == Pile(p)
        IN  /\ cards # <<>>
            /\ \E s \in 0..3 : OfSuit(cards, s) = {}
            /\ \E s \in 0..3 :
                  /\ Cardinality(OfSuit(cards, s)) > 2
                  /\ \E i, j \in OfSuit(cards, s) :
                        /\ \A k \in OfSuit(cards, s) : i <= k /\ k <= j
                        /\ cards[i] # t.primiera_cards[s]
                        /\ cards[j] # t.primiera_cards[s]

IsCapture(c) == IsPlay(c) /\ ~c.raised /\ c.caps # <<>>

\* C13: the tail of the driver runs with the deck and both hands empty; it
\* moves the cards left on the tabletop into one trick (None, cards, 0) at
\* the end of the pile of the player of the most recent capture, leaves the
\* other pile and the number of scopas as they were and the tabletop empty
FinalSweep ==
    [][/\ last_player_to_pickup' =
             IF IsCapture(call') THEN call'.player ELSE last_player_to_pickup
       /\ call'.op = "sweep" =>
             /\ deck = <<>>
             /\ \A p \in Players : hands[p] = <<>>
             /\ ~call'.raised
             /\ tabletop' = <<>>
             /\ \A p \in Players : NumScopas(tricks'[p]) = NumScopas(tricks[p])
             /\ IF tabletop = <<>> THEN tricks' = tricks
                ELSE /\ last_player_to_pickup \in Players
                     /\ tricks' = [tricks EXCEPT ![last_player_to_pickup] =
                                      Append(@, Trick(None, tabletop, 0))]]_vars

\* the leftover cards, several of them, went to the first player, who made
\* the last capture but not the last play
WitnessFinalSweep ==
    /\ pc = "done"
    /\ call.op = "sweep"
    /\ last_player_to_pickup = players[1]
    /\ tabletop = <<>>
    /\ LET pile == tricks[players[1]]
       IN  /\ pile # <<>>
           /\ pile[Len(pile)].card_played = None
           /\ pile[Len(pile)].scopa = 0
           /\ Len(pile[Len(pile)].cards_picked_up) > 1

HandCapacity == \A p \in Players : Len(hands[p]) \in 0..3

\* C14: a hand never holds more than 3 cards; deal_cards_to_players runs only
\* when both hands are empty and leaves exactly 3 cards in each
DealingDiscipline ==
    [][/\ HandCapacity /\ HandCapacity'
       /\ call'.op = "deal_cards_to_players" =>
             /\ \A p \in Players : hands[p] = <<>>
             /\ ~call'.raised
             /\ \A p \in Players : Len(hands'[p]) = 3
             /\ Len(deck') = Len(deck) - 6]_vars

\* a later deal: cards have been played and both hands are full again
WitnessDealingDiscipline ==
    /\ call.op = "deal_cards_to_players"
    /\ turn_number >= 6
    /\ \A p \in Players : Len(hands[p]) = 3

\* how often card c is the played card of a pair with a non-empty (or with
\* the empty) capture
CountPlays(plays, c, nonempty) ==
    Cardinality({i \in 1..Len(plays) :
                    plays[i][1] = c /\ ((plays[i][2] # <<>>) <=> nonempty)})

\* C15 as stated: in possible_plays a hand card is the played card of at
\* most one pair with a non-empty capture and of at most one placement
PossiblePlaysAtMostOnce ==
    \A p \in Players :
        LET plays == possible_plays(p)
        IN  \A c \in Range(hands[p]) :
              /\ CountPlays(plays, c, TRUE) <= 1
              /\ CountPlays(plays, c, FALSE) <= 1

\* C15 amended: no pair is listed twice; a hand card is listed once for
\* every non-empty subset of the tabletop that verify_play accepts for it,
\* which can be several, and once as a placement if there is none
PossiblePlaysMultiplicity ==
    LET subsets == powerset(tabletop)
    IN  \A p \in Players :
          LET plays == possible_plays(p)
          IN  /\ \A i, j \in 1..Len(plays) : plays[i] = plays[j] => i = j
              /\ \A c \in Range(hands[p]) :
                    LET captures == {k \in 1..Len(subsets) :
                                        /\ subsets[k] # <<>>
                                        /\ verify_play(p, c, subsets[k])}
                    IN  /\ CountPlays(plays, c, TRUE) = Cardinality(captures)
                        /\ CountPlays(plays, c, FALSE) = IF captures = {} THEN 1 ELSE 0

\* the player to move holds a card listed with two captures, one of them of
\* several cards, and a card listed as a placement
WitnessPossiblePlaysMultiplicity ==
    /\ pc = "play"
    /\ LET plays == possible_plays(CurrentPlayer)
       IN  /\ \E i, j \in 1..Len(plays) :
                 /\ i # j
                 /\ plays[i][1] = plays[j][1]
                 /\ Len(plays[i][2]) > 1
                 /\ plays[j][2] # <<>>
           /\ \E i \in 1..Len(plays) : plays[i][2] = <<>>

Terminal ==
    /\ pc = "done"
    /\ deck = <<>>
    /\ \A p \in Players : hands[p] = <<>>
    /\ tabletop = <<>>
    /\ Len(Pile(players[1])) + Len(Pile(players[2])) = 40
    /\ Conservation

\* C17: whatever entries of possible_plays the chooser picks, the driver
\* reaches the end of the match, and possible_plays is never empty for a
\* player who holds a card
MatchCompletes ==
    /\ [](\A p \in Players : hands[p] # <<>> => possible_plays(p) # <<>>)
    /\ [](pc # "raised")
    /\ <>Terminal

\* a match that has ended after the chooser left the first entry
WitnessMatchCompletes == Terminal /\ nfree > 0 /\ turn_number = LAST_TURN

IsDeal(c) == c.op \in {"deal_cards_to_table", "deal_cards_to_players"}

\* C18: every deal finds the cards it asks for (4 for the tabletop, 3 and 3
\* for the hands), the deck never grows, only a deal takes cards from it, and
\* an empty deck is never dealt from
NoDeckUnderflow ==
    [][/\ Len(deck') <= Len(deck)
       /\ deck' # deck => IsDeal(call') /\ deck # <<>>
       /\ IsDeal(call') =>
             LET n == IF call'.op = "deal_cards_to_table" THEN 4 ELSE 6
             IN  /\ Len(deck) >= n
                 /\ ~call'.raised
                 /\ deck' = SubSeq(deck, 1, Len(deck) - n)
                 /\ Len(deck') % 6 = 0]_vars

\* the last deal has taken the last six cards
WitnessNoDeckUnderflow ==
    /\ call.op = "deal_cards_to_players"
    /\ deck = <<>>
    /\ \A p \in Players : Len(hands[p]) = 3
    /\ turn_number = 30

\* the cards that have left the hands: those dealt to the hands so far less
\* those still held
CardsPlayed ==
    (IF pc = "start" THEN 0 ELSE 36 - Len(deck))
    - Len(hands[players[1]]) - Len(hands[players[2]])

\* C19: the turn counter goes up by one with every card played and with
\* nothing else, so it counts the cards that have left the hands; a play
\* has the turn number 36 exactly when it is the last of the match (the
\* deck is empty and so are both hands after it)
TurnCounterMarksLastTurn ==
    [][/\ turn_number' = IF IsPlay(call') THEN turn_number + 1 ELSE turn_number
       /\ turn_number = CardsPlayed
       /\ turn_number' = CardsPlayed'
       /\ IsPlay(call') =>
             (turn_number' = LAST_TURN
                <=> (deck' = <<>> /\ \A p \in Players : hands'[p] = <<>>))]_vars

\* the last card of a match has been played, as a placement
WitnessTurnCounter ==
    /\ IsPlay(call) /\ call.caps = <<>>
    /\ turn_number = LAST_TURN
    /\ deck = <<>>
    /\ \A p \in Players : hands[p] = <<>>

\* C20: at the end of a match the two tallies hold 40 cards and 10 Denari
\* between them and the 7 of Denari once; the points for most cards, most
\* Denari and the primiera go to one player at most
ExclusiveAwards ==
    pc = "done" =>
        LET tally == tally_tricks(tricks)
            t1    == tally[players[1]]
            t2    == tally[players[2]]
            score == score_match(tricks)
            s1    == primiera_sum(t1)
            s2    == primiera_sum(t2)
        IN  /\ t1.num_cards + t2.num_cards = 40
            /\ t1.num_denari + t2.num_denari = 10
            /\ t1.settebello + t2.settebello = 1
            /\ ~(t1.num_cards > 20 /\ t2.num_cards > 20)
            /\ ~(t1.num_denari > 5 /\ t2.num_denari > 5)
            /\ score[players[1]] + score[players[2]]
                  = t1.num_scopas + t2.num_scopas
                    + 1
                    + Point(t1.num_cards # t2.num_cards)
                    + Point(t1.num_denari # t2.num_denari)
                    + Point(s1 # s2)

\* a finished match in which most cards went to one player and the 7 of
\* Denari to the other
WitnessExclusiveAwards ==
    /\ pc = "done"
    /\ \E p \in Players :
          LET t == tally_tricks(tricks)
          IN  /\ t[p].num_cards > 20
              /\ t[Other(p)].settebello = 1

====
